---------------------------- MODULE Spec2Model ----------------------------
(***************************************************************************)
(* A model of src/main.py: the export-job orchestration of main() (create  *)
(* an export, poll the job list, download the artifact, archive it,        *)
(* transform it, archive the result) and the row pipeline of transform().  *)
(*                                                                         *)
(* Python values that may be None are modelled as sets of at most one      *)
(* element: None is {} and a value x is {x}.                               *)
(***************************************************************************)
EXTENDS Integers, Sequences, FiniteSets

VARIABLES
    pc,            \* position of main(): the statement it executes next
    error,         \* name of the exception that ended the run, "" when none
    input_dt_str,  \* the reporting period typed at the prompt, <<year, month>>
    from_dt,       \* main's from_dt, None before line 137
    to_dt,         \* main's to_dt, None before line 138
    report_id,     \* main's report_id
    reports,       \* main's reports: None, or the list of the last listing
    report,        \* main's report: the entry selected from reports
    download_link, \* main's download_link
    response,      \* main's response: the answer to the download
    t212_df,       \* main's t212_df: the downloaded bytes
    digrin_df,     \* main's digrin_df: the frame transform returned
    csv_file,      \* the local file digrin_df.to_csv(filename) writes
    s3,            \* the bucket: the set of [key, body] objects put so far
    last,          \* the last HTTP exchange: [call, status]
    payload,       \* the JSON period of the last creation request
    fetched,       \* the URL of the artifact GET
    waited,        \* a time.sleep ran since the last HTTP exchange
    nCreateOK      \* creation calls answered with status 200: 0, 1, 2 = several

vars == <<pc, error, input_dt_str, from_dt, to_dt, report_id, reports, report,
          download_link, response, t212_df, digrin_df, csv_file, s3, last,
          payload, fetched, waited, nCreateOK>>

---------------------------------------------------------------------------
(* Bounds of the model.                                                    *)

\* longest job list a listing call returns
MaxReports == 2
\* most rows of a downloaded table in a run of main()
MaxRows == 1
\* most rows of a table handed to transform() on its own
MaxRowsPure == 2
\* the periods of the date computation span 2023 to 2023 + MaxYears
MaxYears == 2
\* longest job list a listing call returns in the runs checked for progress
MaxReportsLive == 1

---------------------------------------------------------------------------
(* Python values.                                                          *)

None == {}

Some(x) == {x}

Val(o) == CHOOSE x \in o : TRUE

Min(a, b) == IF a < b THEN a ELSE b

\* bool(x) of an optional int: None and 0 are falsy (line 143)
TruthyInt(o) == o # None /\ o # Some(0)

\* a wrong test, "reports is not None": the empty list passes
TruthyListNotNone(o) == o # None

\* bool(x) of an optional list: None and [] are falsy (line 158)
TruthyList(o) == o # None /\ o # Some(<<>>)

\* s[::-1]
Reverse(s) == [i \in 1..Len(s) |-> s[Len(s) + 1 - i]]

\* all sequences over S of length at most n
SeqsUpTo(S, n) == UNION {[1..k -> S] : k \in 0..n}

---------------------------------------------------------------------------
(* Dates: datetime.datetime as a record; relativedelta(months=1).          *)

HTTP_OK == 200

IsLeap(y) == (y % 4 = 0 /\ y % 100 # 0) \/ y % 400 = 0

DaysInMonth(y, m) ==
    IF m = 2 THEN (IF IsLeap(y) THEN 29 ELSE 28)
    ELSE IF m \in {4, 6, 9, 11} THEN 30 ELSE 31

\* datetime.datetime.strptime(s, '%Y-%m'): the missing fields default to
\* day 1, 00:00:00; a month outside 1..12 raises ValueError
StrptimeOk(s) == s[2] \in 1..12

Strptime(s) ==
    [year |-> s[1], month |-> s[2], day |-> 1,
     hour |-> 0, minute |-> 0, second |-> 0]

\* a wrong month step: December wraps to January of the same year
AddOneMonthNoRollover(dt) ==
    LET m == IF dt.month = 12 THEN 1 ELSE dt.month + 1
    IN  [dt EXCEPT !.month = m,
                   !.day = Min(dt.day, DaysInMonth(dt.year, m))]

\* dt + relativedelta(months=1): the month advances, the year rolls over
\* after December, the day is clipped to the length of the new month
AddOneMonth(dt) ==
    LET y == IF dt.month = 12 THEN dt.year + 1 ELSE dt.year
        m == IF dt.month = 12 THEN 1 ELSE dt.month + 1
    IN  [dt EXCEPT !.year = y, !.month = m,
                   !.day = Min(dt.day, DaysInMonth(y, m))]

get_first_day_of_month(dt) == [dt EXCEPT !.day = 1]

get_first_day_of_next_month(dt) ==
    LET next_month_dt == AddOneMonth(dt)
    IN  [next_month_dt EXCEPT !.day = 1]

Digit(n) ==
    CASE n = 0 -> "0" [] n = 1 -> "1" [] n = 2 -> "2" [] n = 3 -> "3"
      [] n = 4 -> "4" [] n = 5 -> "5" [] n = 6 -> "6" [] n = 7 -> "7"
      [] n = 8 -> "8" [] n = 9 -> "9"

Pad2(n) == <<Digit((n \div 10) % 10), Digit(n % 10)>>

Pad4(n) == Pad2(n \div 100) \o Pad2(n % 100)

\* dt.strftime('%Y-%m-%dT%H:%M:%SZ') as a sequence of characters
Strftime(dt) ==
    Pad4(dt.year) \o <<"-">> \o Pad2(dt.month) \o <<"-">> \o Pad2(dt.day)
    \o <<"T">> \o Pad2(dt.hour) \o <<":">> \o Pad2(dt.minute) \o <<":">>
    \o Pad2(dt.second) \o <<"Z">>

\* the period of the creation request (lines 57-58)
Payload(f, t) == [timeFrom |-> Strftime(f), timeTo |-> Strftime(t)]

---------------------------------------------------------------------------
(* transform(): the tables.  The bytes of a CSV file are a record: whether *)
(* they decode as UTF-8, the column names of the header line, and the data *)
(* lines as records of cell texts.  A DataFrame is the sequence of its     *)
(* rows, each with its index label idx and its cells, a missing cell being *)
(* None.  Column dtypes are not modelled.                                  *)

TICKER_BLACKLIST == {"VNTRF", "BRK.A"}

\* a wrong table: VWCE is mapped to VUAA, itself a key of the table
TICKER_MAP_Chained ==
    [k \in {"VWCE", "VUAA", "SXRV", "ZPRV", "ZPRX", "MC", "ASML", "CSPX",
            "EISU", "IITU", "IUHC", "NDIA"} |->
        CASE k = "VWCE" -> "VUAA" [] k = "VUAA" -> "VUAA.DE"
          [] k = "SXRV" -> "SXRV.DE" [] k = "ZPRV" -> "ZPRV.DE"
          [] k = "ZPRX" -> "ZPRX.DE" [] k = "MC" -> "MC.PA"
          [] k = "ASML" -> "ASML.AS" [] k = "CSPX" -> "CSPX.L"
          [] k = "EISU" -> "EISU.L" [] k = "IITU" -> "IITU.L"
          [] k = "IUHC" -> "IUHC.L" [] k = "NDIA" -> "NDIA.L"]

TICKER_MAP ==
    [k \in {"VWCE", "VUAA", "SXRV", "ZPRV", "ZPRX", "MC", "ASML", "CSPX",
            "EISU", "IITU", "IUHC", "NDIA"} |->
        CASE k = "VWCE" -> "VWCE.DE" [] k = "VUAA" -> "VUAA.DE"
          [] k = "SXRV" -> "SXRV.DE" [] k = "ZPRV" -> "ZPRV.DE"
          [] k = "ZPRX" -> "ZPRX.DE" [] k = "MC" -> "MC.PA"
          [] k = "ASML" -> "ASML.AS" [] k = "CSPX" -> "CSPX.L"
          [] k = "EISU" -> "EISU.L" [] k = "IITU" -> "IITU.L"
          [] k = "IUHC" -> "IUHC.L" [] k = "NDIA" -> "NDIA.L"]

\* the actions the row filter keeps (line 117)
TRADE_ACTIONS == {"Market buy", "Market sell"}

Columns == {"Action", "Ticker"}

\* cell texts pandas.read_csv reads as a missing value
NaTexts == {"", "NA"}

\* one cell as read_csv parses it
ParseCell(text) == IF text \in NaTexts THEN None ELSE Some(text)

\* pd.read_csv(StringIO(df_bytes.decode('utf-8'))): rows indexed 0..n-1
read_csv(b) ==
    [i \in 1..Len(b.rows) |->
        [idx |-> i - 1,
         Action |-> ParseCell(b.rows[i].Action),
         Ticker |-> ParseCell(b.rows[i].Ticker)]]

\* Series.isin(values) on one cell: a missing cell is in no list of texts
isin(cell, values) == cell # None /\ Val(cell) \in values

\* a wrong remap, Series.map(mapping): a text that is no key becomes missing
replace_as_map(cell, mapping) ==
    IF cell # None /\ Val(cell) \in DOMAIN mapping
    THEN Some(mapping[Val(cell)])
    ELSE None

\* a wrong remap, on the column cast to str: a missing cell becomes "nan"
replace_as_str(cell, mapping) ==
    IF cell = None THEN Some("nan")
    ELSE IF Val(cell) \in DOMAIN mapping THEN Some(mapping[Val(cell)])
    ELSE cell

\* Series.replace(mapping) on one cell: a missing cell stays missing
replace(cell, mapping) ==
    IF cell # None /\ Val(cell) \in DOMAIN mapping
    THEN Some(mapping[Val(cell)])
    ELSE cell

\* report_df[report_df['Action'].isin(['Market buy', 'Market sell'])]
FilterActions(df) ==
    LET keep(r) == isin(r.Action, TRADE_ACTIONS)
    IN  SelectSeq(df, keep)

\* a wrong filter: the rows kept are relabelled 0, 1, ... (reset_index)
FilterBlacklistReset(df) ==
    LET keep(r) == ~isin(r.Ticker, TICKER_BLACKLIST)
        kept == SelectSeq(df, keep)
    IN  [i \in 1..Len(kept) |-> [kept[i] EXCEPT !.idx = i - 1]]

\* a wrong filter: the negation is missing, the blacklisted rows are kept
FilterBlacklistOnly(df) ==
    LET keep(r) == isin(r.Ticker, TICKER_BLACKLIST)
    IN  SelectSeq(df, keep)

\* report_df[~report_df['Ticker'].isin(TICKER_BLACKLIST)]
FilterBlacklist(df) ==
    LET keep(r) == ~isin(r.Ticker, TICKER_BLACKLIST)
    IN  SelectSeq(df, keep)

\* report_df['Ticker'] = report_df['Ticker'].replace(TICKER_MAP)
MapTickers(df) ==
    [i \in 1..Len(df) |-> [df[i] EXCEPT !.Ticker = replace(@, TICKER_MAP)]]

\* DataFrame.convert_dtypes(): rows, labels and cell values are kept, a
\* missing cell stays missing
convert_dtypes(df) ==
    [i \in 1..Len(df) |->
        [idx |-> df[i].idx,
         Action |-> IF df[i].Action = None THEN None ELSE df[i].Action,
         Ticker |-> IF df[i].Ticker = None THEN None ELSE df[i].Ticker]]

\* the exception transform(df_bytes) raises, "" when it returns
TransformError(b) ==
    IF ~b.utf8 THEN "UnicodeDecodeError"
    ELSE IF b.header = {} THEN "EmptyDataError"
    ELSE IF ~(Columns \subseteq b.header) THEN "KeyError"
    ELSE ""

\* the frame transform(df_bytes) returns
transform(b) ==
    convert_dtypes(MapTickers(FilterBlacklist(FilterActions(read_csv(b)))))

---------------------------------------------------------------------------
(* What the provider, the artifact host and the prompt may supply.         *)

\* the periods typed at the prompt; month 13 does not parse
Inputs == {<<2023, 12>>, <<2024, 2>>, <<2024, 13>>}

StatusCodes == {HTTP_OK, 429, 500}

\* the id the provider assigns to the job of this run, and the ids it lists
AssignedIds == {1}

ReportIds == {1, 2}

Links == {None, Some("u1"), Some("u2")}

\* the dicts of a job list; main() reads downloadLink of a Finished entry
\* only (lines 168-169), so the other entries carry none
Entries ==
    [reportId : ReportIds, status : {"Finished"}, downloadLink : Links]
    \cup [reportId : ReportIds, status : {"Queued", "Failed"},
          downloadLink : {None}]

\* the body of an answer that carries none, or one that is not JSON
NoJson == [json |-> FALSE, reportId |-> None, list |-> <<>>]

\* bodies of a creation answer: with status 200 not JSON, a dict without
\* reportId, or a dict with reportId 0 or an assigned id
CreateBodies(status) ==
    IF status # HTTP_OK THEN {NoJson}
    ELSE {NoJson} \cup
         {[json |-> TRUE, reportId |-> r, list |-> <<>>] :
            r \in {None, Some(0)} \cup {Some(i) : i \in AssignedIds}}

\* bodies of a listing answer: with status 200 not JSON, or a list of at
\* most n dicts
ListBodies(status, n) ==
    IF status # HTTP_OK THEN {NoJson}
    ELSE {NoJson} \cup
         {[json |-> TRUE, reportId |-> None, list |-> l] :
            l \in SeqsUpTo(Entries, n)}

\* the cell texts of the tables downloaded in a run of main()
MainCells == [Action : {"Market buy", "Dividend (Ordinary)"},
              Ticker : {"VWCE", "BRK.A"}]

\* the cell texts of the tables handed to transform() on its own
PureCells == [Action : {"Market buy", "Market sell", "Dividend (Ordinary)",
                        "Interest on cash", "Limit buy"},
              Ticker : {"VWCE", "BRK.A", "VNTRF", "AAPL", "VWCE.DE", "NA",
                        ""}]

EmptyBytes == [utf8 |-> TRUE, header |-> {}, rows |-> <<>>]

\* file contents: not UTF-8, a header lacking a column, or a table of at
\* most n rows over the given cells
Bytes(cells, n) ==
    {[utf8 |-> FALSE, header |-> {}, rows |-> <<>>]}
    \cup {[utf8 |-> TRUE, header |-> h, rows |-> <<>>] :
            h \in (SUBSET Columns) \ {Columns}}
    \cup {[utf8 |-> TRUE, header |-> Columns, rows |-> r] :
            r \in SeqsUpTo(cells, n)}

\* bodies of the download answer
DownloadBodies(status) ==
    IF status # HTTP_OK THEN {EmptyBytes} ELSE Bytes(MainCells, MaxRows)

---------------------------------------------------------------------------
(* The functions main() calls.                                             *)

\* response.json() raises on a body that is not JSON (lines 72, 87)
JsonRaises(status, body) == status = HTTP_OK /\ ~body.json

\* the value create_export returns (lines 66-72)
create_export(status, body) ==
    IF status # HTTP_OK THEN None ELSE body.reportId

\* the value fetch_reports returns (lines 81-87)
fetch_reports(status, body) ==
    IF status # HTTP_OK THEN None ELSE Some(body.list)

\* a wrong scan: the list is searched from its first entry
MatchingReportsForward(list, id) ==
    LET match(r) == r.reportId = id
    IN  SelectSeq(list, match)

\* filter(lambda report: report.get('reportId') == report_id, reports[::-1])
MatchingReports(list, id) ==
    LET match(r) == r.reportId = id
    IN  SelectSeq(Reverse(list), match)

\* next(filter(...)): the first element, None standing for StopIteration
NextReport(list, id) ==
    LET found == MatchingReports(list, id)
    IN  IF found = <<>> THEN None ELSE Some(found[1])

\* a wrong test: any status that is not Queued ends the polling
FinishedOrFailed(r) == r.status # "Queued"

\* a wrong test: the status is compared with a text no entry carries
FinishedUpper(r) == r.status = "FINISHED"

\* report.get('status') == 'Finished' (line 168)
Finished(r) == r.status = "Finished"

\* filename = f'{input_dt_str}.csv' and the key f'<dir>/{filename}'
Filename(period) == [period |-> period, ext |-> ".csv"]

Key(dir, period) == [dir |-> dir, filename |-> Filename(period)]

\* s3_put_object(bytes, bucket, key) and s3_put_df(df, bucket, key)
s3_put_object(bucket, key, body) ==
    [bucket EXCEPT !.objects = @ \cup {[key |-> key, body |-> body]}]

s3_put_df(bucket, key, df) ==
    [bucket EXCEPT !.frames = @ \cup {[key |-> key, body |-> df]}]

---------------------------------------------------------------------------
(* main(), one action per blocking step.                                   *)

Terminal == {"done", "returned", "raised"}

Init ==
    /\ pc = "start"
    /\ error = ""
    /\ input_dt_str \in Inputs
    /\ from_dt = None
    /\ to_dt = None
    /\ report_id = None
    /\ reports = None
    /\ report = None
    /\ download_link = None
    /\ response = None
    /\ t212_df = None
    /\ digrin_df = None
    /\ csv_file = None
    /\ s3 = [objects |-> {}, frames |-> {}]
    /\ last = [call |-> "none", status |-> 0]
    /\ payload = None
    /\ fetched = None
    /\ waited = FALSE
    /\ nCreateOK = 0

Raise(name) == pc' = "raised" /\ error' = name

\* lines 134-138: parse the period, compute from_dt and to_dt
Start ==
    /\ pc = "start"
    /\ IF StrptimeOk(input_dt_str)
       THEN /\ from_dt' = Some(get_first_day_of_month(Strptime(input_dt_str)))
            /\ to_dt' = Some(get_first_day_of_next_month(Strptime(input_dt_str)))
            /\ pc' = "create"
            /\ error' = error
       ELSE /\ Raise("ValueError")
            /\ UNCHANGED <<from_dt, to_dt>>
    /\ UNCHANGED <<input_dt_str, report_id, reports, report, download_link,
                   response, t212_df, digrin_df, csv_file, s3, last, payload,
                   fetched, waited, nCreateOK>>

\* lines 141-144: one creation call and the test of its result
CreateExport ==
    /\ pc = "create"
    /\ \E status \in StatusCodes : \E body \in CreateBodies(status) :
        /\ payload' = Some(Payload(Val(from_dt), Val(to_dt)))
        /\ last' = [call |-> "create", status |-> status]
        /\ waited' = FALSE
        /\ nCreateOK' = IF status = HTTP_OK
                        THEN Min(nCreateOK + 1, 2) ELSE nCreateOK
        /\ IF JsonRaises(status, body)
           THEN /\ Raise("JSONDecodeError")
                /\ report_id' = report_id
           ELSE /\ report_id' = create_export(status, body)
                /\ pc' = IF TruthyInt(report_id') THEN "created" ELSE "create_sleep"
                /\ error' = error
    /\ UNCHANGED <<input_dt_str, from_dt, to_dt, reports, report,
                   download_link, response, t212_df, digrin_df, csv_file, s3,
                   fetched>>

\* a wrong loop: after the sleep the run goes on to the polling
CreateSleepGivesUp ==
    /\ pc = "create_sleep"
    /\ pc' = "list"
    /\ waited' = TRUE
    /\ UNCHANGED <<error, input_dt_str, from_dt, to_dt, report_id, reports,
                   report, download_link, response, t212_df, digrin_df,
                   csv_file, s3, last, payload, fetched, nCreateOK>>

\* line 147: time.sleep(10), then the loop calls create_export again
CreateSleep ==
    /\ pc = "create_sleep"
    /\ pc' = "create"
    /\ waited' = TRUE
    /\ UNCHANGED <<error, input_dt_str, from_dt, to_dt, report_id, reports,
                   report, download_link, response, t212_df, digrin_df,
                   csv_file, s3, last, payload, fetched, nCreateOK>>

\* line 150: time.sleep(10) before the first listing
CreatedSleep ==
    /\ pc = "created"
    /\ pc' = "list"
    /\ waited' = TRUE
    /\ UNCHANGED <<error, input_dt_str, from_dt, to_dt, report_id, reports,
                   report, download_link, response, t212_df, digrin_df,
                   csv_file, s3, last, payload, fetched, nCreateOK>>

\* lines 155-170: one listing call and what the loop body does with it,
\* the job list holding at most n entries
FetchReportsUpTo(n) ==
    /\ pc = "list"
    /\ \E status \in StatusCodes : \E body \in ListBodies(status, n) :
        /\ last' = [call |-> "list", status |-> status]
        /\ waited' = FALSE
        /\ IF JsonRaises(status, body)
           THEN /\ Raise("JSONDecodeError")
                /\ UNCHANGED <<reports, report, download_link>>
           ELSE /\ reports' = fetch_reports(status, body)
                /\ IF ~TruthyList(reports')
                   THEN /\ pc' = "list_sleep"
                        /\ UNCHANGED <<error, report, download_link>>
                   ELSE LET found == NextReport(Val(reports'), Val(report_id))
                        IN  IF found = None
                            THEN /\ Raise("StopIteration")
                                 /\ UNCHANGED <<report, download_link>>
                            ELSE /\ report' = found
                                 /\ error' = error
                                 /\ IF Finished(Val(found))
                                    THEN /\ download_link' = Val(found).downloadLink
                                         /\ pc' = "download"
                                    ELSE /\ download_link' = download_link
                                         /\ pc' = "list"
    /\ UNCHANGED <<input_dt_str, from_dt, to_dt, report_id, response, t212_df,
                   digrin_df, csv_file, s3, payload, fetched, nCreateOK>>

FetchReports == FetchReportsUpTo(MaxReports)

\* a wrong loop: a failed listing sends the run back to the creation
ListSleepRecreates ==
    /\ pc = "list_sleep"
    /\ pc' = "create"
    /\ waited' = TRUE
    /\ UNCHANGED <<error, input_dt_str, from_dt, to_dt, report_id, reports,
                   report, download_link, response, t212_df, digrin_df,
                   csv_file, s3, last, payload, fetched, nCreateOK>>

\* lines 160-161: time.sleep(10); continue
ListSleep ==
    /\ pc = "list_sleep"
    /\ pc' = "list"
    /\ waited' = TRUE
    /\ UNCHANGED <<error, input_dt_str, from_dt, to_dt, report_id, reports,
                   report, download_link, response, t212_df, digrin_df,
                   csv_file, s3, last, payload, fetched, nCreateOK>>

\* a wrong download: the status of the answer is not tested
DownloadIgnoresStatus ==
    /\ pc = "download"
    /\ IF download_link = None
       THEN /\ Raise("MissingSchema")
            /\ UNCHANGED <<response, t212_df, last, fetched, waited>>
       ELSE \E status \in StatusCodes : \E body \in DownloadBodies(status) :
            /\ fetched' = download_link
            /\ last' = [call |-> "download", status |-> status]
            /\ waited' = FALSE
            /\ response' = Some([status_code |-> status, content |-> body])
            /\ error' = error
            /\ pc' = "put_raw"
            /\ t212_df' = Some(body)
    /\ UNCHANGED <<input_dt_str, from_dt, to_dt, report_id, reports, report,
                   download_link, digrin_df, csv_file, s3, payload, nCreateOK>>

\* lines 172-179: the artifact GET; requests.get(None) raises MissingSchema
Download ==
    /\ pc = "download"
    /\ IF download_link = None
       THEN /\ Raise("MissingSchema")
            /\ UNCHANGED <<response, t212_df, last, fetched, waited>>
       ELSE \E status \in StatusCodes : \E body \in DownloadBodies(status) :
            /\ fetched' = download_link
            /\ last' = [call |-> "download", status |-> status]
            /\ waited' = FALSE
            /\ response' = Some([status_code |-> status, content |-> body])
            /\ error' = error
            /\ IF status # HTTP_OK
               THEN /\ pc' = "returned"
                    /\ t212_df' = t212_df
               ELSE /\ pc' = "put_raw"
                    /\ t212_df' = Some(body)
    /\ UNCHANGED <<input_dt_str, from_dt, to_dt, report_id, reports, report,
                   download_link, digrin_df, csv_file, s3, payload, nCreateOK>>

\* line 181: archive the raw bytes
PutRaw ==
    /\ pc = "put_raw"
    /\ s3' = s3_put_object(s3, Key("t212", input_dt_str), Val(t212_df))
    /\ pc' = "transform"
    /\ UNCHANGED <<error, input_dt_str, from_dt, to_dt, report_id, reports,
                   report, download_link, response, t212_df, digrin_df,
                   csv_file, last, payload, fetched, waited, nCreateOK>>

\* lines 183-184: transform the bytes, write the local CSV file
TransformStep ==
    /\ pc = "transform"
    /\ IF TransformError(Val(t212_df)) # ""
       THEN /\ Raise(TransformError(Val(t212_df)))
            /\ UNCHANGED <<digrin_df, csv_file>>
       ELSE /\ digrin_df' = Some(transform(Val(t212_df)))
            /\ csv_file' = Some([name |-> Filename(input_dt_str),
                                 df |-> Val(digrin_df')])
            /\ pc' = "put_df"
            /\ error' = error
    /\ UNCHANGED <<input_dt_str, from_dt, to_dt, report_id, reports, report,
                   download_link, response, t212_df, s3, last, payload,
                   fetched, waited, nCreateOK>>

\* a wrong key: the frame is put under the directory of the raw bytes
PutDfRawKey ==
    /\ pc = "put_df"
    /\ s3' = s3_put_df(s3, Key("t212", input_dt_str), Val(digrin_df))
    /\ pc' = "done"
    /\ UNCHANGED <<error, input_dt_str, from_dt, to_dt, report_id, reports,
                   report, download_link, response, t212_df, digrin_df,
                   csv_file, last, payload, fetched, waited, nCreateOK>>

\* line 186: archive the transformed frame
PutDf ==
    /\ pc = "put_df"
    /\ s3' = s3_put_df(s3, Key("digrin", input_dt_str), Val(digrin_df))
    /\ pc' = "done"
    /\ UNCHANGED <<error, input_dt_str, from_dt, to_dt, report_id, reports,
                   report, download_link, response, t212_df, digrin_df,
                   csv_file, last, payload, fetched, waited, nCreateOK>>

Next ==
    \/ Start
    \/ CreateExport
    \/ CreateSleep
    \/ CreatedSleep
    \/ FetchReports
    \/ ListSleep
    \/ Download
    \/ PutRaw
    \/ TransformStep
    \/ PutDf

Spec == Init /\ [][Next]_vars

\* main() is one sequential thread: a step that can be taken is taken
FairSpec == Spec /\ WF_vars(Next)

\* the same runs with shorter job lists
LiveNext ==
    \/ Start
    \/ CreateExport
    \/ CreateSleep
    \/ CreatedSleep
    \/ FetchReportsUpTo(MaxReportsLive)
    \/ ListSleep
    \/ Download
    \/ PutRaw
    \/ TransformStep
    \/ PutDf

LiveSpec == Init /\ [][LiveNext]_vars /\ WF_vars(LiveNext)

TypeOK ==
    /\ pc \in {"start", "create", "create_sleep", "created", "list",
               "list_sleep", "download", "put_raw", "transform", "put_df"}
              \cup Terminal
    /\ nCreateOK \in 0..2
    /\ waited \in BOOLEAN
    /\ Cardinality(report_id) <= 1
    /\ Cardinality(download_link) <= 1

---------------------------------------------------------------------------
(* transform() on its own: main() stands at line 183 of a run for December *)
(* 2023 whose job 1 was listed Finished at u1, with any file content       *)
(* downloaded and archived.                                                *)

PureInit ==
    /\ pc = "transform"
    /\ error = ""
    /\ input_dt_str = <<2023, 12>>
    /\ from_dt = Some(get_first_day_of_month(Strptime(input_dt_str)))
    /\ to_dt = Some(get_first_day_of_next_month(Strptime(input_dt_str)))
    /\ report_id = Some(1)
    /\ report = Some([reportId |-> 1, status |-> "Finished",
                      downloadLink |-> Some("u1")])
    /\ reports = Some(<<Val(report)>>)
    /\ download_link = Some("u1")
    /\ t212_df \in {Some(b) : b \in Bytes(PureCells, MaxRowsPure)}
    /\ response = Some([status_code |-> HTTP_OK, content |-> Val(t212_df)])
    /\ digrin_df = None
    /\ csv_file = None
    /\ s3 = s3_put_object([objects |-> {}, frames |-> {}],
                          Key("t212", input_dt_str), Val(t212_df))
    /\ last = [call |-> "download", status |-> HTTP_OK]
    /\ payload = Some(Payload(Val(from_dt), Val(to_dt)))
    /\ fetched = Some("u1")
    /\ waited = FALSE
    /\ nCreateOK = 1

PureNext ==
    \/ TransformStep
    \/ PutDf

PureSpec == PureInit /\ [][PureNext]_vars

---------------------------------------------------------------------------
(* The period computation on its own: main() from the prompt to the end of *)
(* the creation loop, for every month of the years 2023 to 2023 + MaxYears.*)

DateInit ==
    /\ pc = "start"
    /\ error = ""
    /\ input_dt_str \in {<<y, m>> : y \in 2023..(2023 + MaxYears), m \in 1..12}
    /\ from_dt = None
    /\ to_dt = None
    /\ report_id = None
    /\ reports = None
    /\ report = None
    /\ download_link = None
    /\ response = None
    /\ t212_df = None
    /\ digrin_df = None
    /\ csv_file = None
    /\ s3 = [objects |-> {}, frames |-> {}]
    /\ last = [call |-> "none", status |-> 0]
    /\ payload = None
    /\ fetched = None
    /\ waited = FALSE
    /\ nCreateOK = 0

DateNext ==
    \/ Start
    \/ CreateExport
    \/ CreateSleep

DateSpec == DateInit /\ [][DateNext]_vars

---------------------------------------------------------------------------
(* The claims.                                                             *)

\* a step of FetchReports whose listing was answered 200 with a JSON body
ListedOK == pc = "list" /\ last'.status = HTTP_OK /\ error' # "JSONDecodeError"

HasId(list, id) == \E i \in 1..Len(list) : list[i].reportId = id

\* the matching entry after which no entry of the list matches
LastMatch(list, id) ==
    list[CHOOSE i \in 1..Len(list) :
            /\ list[i].reportId = id
            /\ \A j \in (i + 1)..Len(list) : list[j].reportId # id]

\* C1: a listing call answered with a non-success status raises nothing and
\* changes neither the job id nor the creation record; the run sleeps, and
\* after the sleep it stands at the listing call again, with the same job
\* id and without having made any HTTP call in between.
C1_ListingRetried ==
    [][ /\ (pc = "list" /\ last'.status # HTTP_OK) =>
              /\ pc' = "list_sleep"
              /\ error' = ""
              /\ report_id' = report_id
              /\ payload' = payload
              /\ nCreateOK' = nCreateOK
        /\ (pc = "list_sleep") =>
              /\ pc' = "list"
              /\ waited'
              /\ report_id' = report_id
              /\ last' = last
              /\ payload' = payload ]_vars

\* C1: a listing was answered 429, the run slept and is about to list again
C1_Witness ==
    /\ pc = "list"
    /\ last = [call |-> "list", status |-> 429]
    /\ waited
    /\ report_id = Some(1)

\* C2: after every successful listing that holds the job id, the selected
\* report is the last matching entry of the list; the run goes to the
\* download with that entry's link exactly when that entry is Finished and
\* polls again otherwise, whatever the earlier matching entries say.
C2_LastMatchingEntry ==
    [][ (ListedOK /\ TruthyList(reports')
            /\ HasId(Val(reports'), Val(report_id))) =>
          LET e == LastMatch(Val(reports'), Val(report_id))
          IN  /\ report' = Some(e)
              /\ IF e.status = "Finished"
                 THEN pc' = "download" /\ download_link' = e.downloadLink
                 ELSE pc' = "list" /\ download_link' = download_link ]_vars

\* C2: the list holds the job twice, Queued first and Finished at u2 last,
\* and the run goes to the download of u2
C2_Witness ==
    /\ reports # None
    /\ Len(Val(reports)) = 2
    /\ Val(reports)[1].reportId = Val(report_id)
    /\ Val(reports)[2].reportId = Val(report_id)
    /\ Val(reports)[1].status = "Queued"
    /\ Val(reports)[2] = [reportId |-> 1, status |-> "Finished",
                          downloadLink |-> Some("u2")]
    /\ pc = "download"
    /\ download_link = Some("u2")

\* C3: whenever the run is about to issue a listing call and its previous
\* HTTP call was a listing call, a sleep has run in between.
C3_WaitBetweenListings ==
    (pc = "list" /\ last.call = "list") => waited

\* C4: a successful listing whose non-empty list lacks the job id does not
\* end the run.
C4_MissingIdDoesNotEndRun ==
    [][ (ListedOK /\ TruthyList(reports')
            /\ ~HasId(Val(reports'), Val(report_id))) =>
          pc' \notin Terminal ]_vars

\* C5: at most one creation call of a run is answered with status 200.
C5_AtMostOneCreationOK == nCreateOK <= 1

\* C6: a creation call answered with a non-success status raises nothing
\* and yields None; the run sleeps and then stands at the creation call
\* again; every creation request after the first carries the same period
\* as the one before; a listing call is made only with a truthy job id
\* obtained from a creation call answered 200.
C6_CreationRetried ==
    [][ /\ (pc = "create" /\ last'.status # HTTP_OK) =>
              /\ pc' = "create_sleep"
              /\ error' = ""
              /\ report_id' = None
        /\ (pc = "create_sleep") =>
              /\ pc' = "create"
              /\ waited'
              /\ last' = last
        /\ (pc = "create" /\ payload # None) => payload' = payload
        /\ (last'.call = "list") =>
              /\ TruthyInt(report_id)
              /\ nCreateOK >= 1 ]_vars

\* C6: a creation was answered 500 and the run slept; a second creation
\* request with the same period is about to go out
C6_Witness ==
    /\ pc = "create"
    /\ last = [call |-> "create", status |-> 500]
    /\ waited
    /\ payload = Some(Payload(Val(from_dt), Val(to_dt)))
    /\ report_id = None

\* C7: if every creation call is answered with a non-success status the
\* run eventually stops, and so it does if every listing call is.
C7_BoundedBackoff ==
    /\ [](last.call = "create" => last.status # HTTP_OK)
          => <>(pc \in Terminal)
    /\ [](last.call = "list" => last.status # HTTP_OK)
          => <>(pc \in Terminal)

\* C8: a run that ended by an exception or by the early return has put
\* nothing into the bucket.
C8_NoPartialPersistence ==
    (pc \in {"raised", "returned"}) => (s3.objects = {} /\ s3.frames = {})

\* C9: the run stands at the download only right after a listing answered
\* 200 whose selected entry, the last one matching the job id, is Finished,
\* with that entry's link as download_link; the URL of the artifact GET is
\* that link; from there on the job list is not fetched again.
C9_DownloadAfterFinished ==
    [][ /\ (pc' = "download") =>
              /\ last' = [call |-> "list", status |-> HTTP_OK]
              /\ TruthyList(reports')
              /\ report' = Some(LastMatch(Val(reports'), Val(report_id')))
              /\ Val(report').status = "Finished"
              /\ download_link' = Val(report').downloadLink
        /\ (last'.call = "download") =>
              /\ pc = "download" \/ last.call = "download"
              /\ fetched' = Val(report').downloadLink
              /\ Val(report').status = "Finished"
        /\ (pc = "download" \/ last.call = "download") =>
              /\ pc' \notin {"list", "list_sleep", "create", "create_sleep"}
              /\ last'.call = "download" \/ pc' = "raised"
              /\ reports' = reports
              /\ report' = report ]_vars

\* C9: the artifact at u2 was fetched, u2 being the link of the Finished
\* entry listed last for the job
C9_Witness ==
    /\ last = [call |-> "download", status |-> HTTP_OK]
    /\ fetched = Some("u2")
    /\ Len(Val(reports)) = 2
    /\ Val(reports)[1] = [reportId |-> 1, status |-> "Finished",
                          downloadLink |-> Some("u1")]
    /\ Val(reports)[2] = [reportId |-> 1, status |-> "Finished",
                          downloadLink |-> Some("u2")]

\* C10: when transform has returned, the index labels of its frame are, in
\* increasing order, exactly the data lines whose Action text is "Market
\* buy" or "Market sell" and whose Ticker text is not blacklisted, and each
\* row carries the Action of its line.
C10_RowsKept ==
    (pc = "put_df") =>
        LET lines == Val(t212_df).rows
            out == Val(digrin_df)
            Kept(i) == /\ lines[i].Action \in {"Market buy", "Market sell"}
                       /\ lines[i].Ticker \notin {"VNTRF", "BRK.A"}
        IN  /\ \A i \in 1..Len(lines) :
                  Kept(i) <=> \E k \in 1..Len(out) : out[k].idx = i - 1
            /\ \A k \in 1..Len(out) :
                  /\ out[k].idx \in 0..(Len(lines) - 1)
                  /\ out[k].Action = Some(lines[out[k].idx + 1].Action)
            /\ \A k \in 1..(Len(out) - 1) : out[k].idx < out[k + 1].idx

\* C10: of a blacklisted buy and a dividend before a sell, only the sell
\* is in the frame
C10_Witness ==
    /\ pc = "put_df"
    /\ Len(Val(t212_df).rows) = 2
    /\ Val(t212_df).rows[1] \in
          {[Action |-> "Market buy", Ticker |-> "BRK.A"],
           [Action |-> "Dividend (Ordinary)", Ticker |-> "AAPL"]}
    /\ Val(t212_df).rows[2] = [Action |-> "Market sell", Ticker |-> "AAPL"]
    /\ Len(Val(digrin_df)) = 1
    /\ Val(digrin_df)[1].idx = 1

\* the data line a row of the frame was read from
LineOf(r) == Val(t212_df).rows[r.idx + 1]

C12_MissingTickerKept ==
    /\ (pc = "raised") => TransformError(Val(t212_df)) # ""
    /\ (pc = "put_df") =>
          LET lines == Val(t212_df).rows
              out == Val(digrin_df)
          IN  \A i \in 1..Len(lines) :
                (/\ lines[i].Action \in {"Market buy", "Market sell"}
                 /\ lines[i].Ticker \in NaTexts) =>
                    \E k \in 1..Len(out) :
                        out[k].idx = i - 1 /\ out[k].Ticker = None

\* C12: a buy with an empty Ticker cell is in the frame, its Ticker missing
C12_Witness ==
    /\ pc = "put_df"
    /\ Val(t212_df).rows = <<[Action |-> "Market buy", Ticker |-> ""]>>
    /\ Val(digrin_df) = <<[idx |-> 0, Action |-> Some("Market buy"),
                           Ticker |-> None]>>

\* C13: no value of the remap table is a key of it or a blacklisted
\* ticker; and when transform has returned, the two filters, the remap and
\* the type conversion applied to its frame give that frame again.
C13_Idempotent ==
    /\ \A k \in DOMAIN TICKER_MAP :
          TICKER_MAP[k] \notin (DOMAIN TICKER_MAP) \cup TICKER_BLACKLIST
    /\ (pc = "put_df") =>
          convert_dtypes(MapTickers(FilterBlacklist(FilterActions(
              Val(digrin_df))))) = Val(digrin_df)

\* C13: a frame with a remapped ticker, VWCE.DE from VWCE, was produced
C13_Witness ==
    /\ pc = "put_df"
    /\ Len(Val(digrin_df)) = 2
    /\ LineOf(Val(digrin_df)[1]).Ticker = "VWCE"
    /\ Val(digrin_df)[1].Ticker = Some("VWCE.DE")
    /\ LineOf(Val(digrin_df)[2]).Ticker = "VWCE.DE"

\* C14: the frame transform returned is the frame obtained with the
\* blacklist filter applied before the action filter.
C14_FiltersCommute ==
    (pc = "put_df") =>
        Val(digrin_df) =
            convert_dtypes(MapTickers(FilterActions(FilterBlacklist(
                read_csv(Val(t212_df))))))

\* C14: each filter dropped a line of its own: a dividend, then a
\* blacklisted buy
C14_Witness ==
    /\ pc = "put_df"
    /\ Val(t212_df).rows =
          <<[Action |-> "Dividend (Ordinary)", Ticker |-> "AAPL"],
            [Action |-> "Market buy", Ticker |-> "VNTRF"]>>
    /\ Val(digrin_df) = <<>>

\* the number a decimal digit character stands for
DigitValue(c) ==
    CASE c = "0" -> 0 [] c = "1" -> 1 [] c = "2" -> 2 [] c = "3" -> 3
      [] c = "4" -> 4 [] c = "5" -> 5 [] c = "6" -> 6 [] c = "7" -> 7
      [] c = "8" -> 8 [] c = "9" -> 9

Number2(t, i) == 10 * DigitValue(t[i]) + DigitValue(t[i + 1])

\* the fields of a text of the form YYYY-MM-DDTHH:MM:SSZ
WireFields(t) ==
    <<100 * Number2(t, 1) + Number2(t, 3), Number2(t, 6), Number2(t, 9),
      Number2(t, 12), Number2(t, 15), Number2(t, 18)>>

WireForm(t) ==
    /\ Len(t) = 20
    /\ t[5] = "-" /\ t[8] = "-" /\ t[11] = "T"
    /\ t[14] = ":" /\ t[17] = ":" /\ t[20] = "Z"

\* C15: for the period (y, m) typed at the prompt, from_dt is day 1 of
\* month m of year y at 00:00:00 and to_dt is day 1 of the next month at
\* 00:00:00, January of y + 1 when m is December: to_dt is one calendar
\* month after from_dt and later than it; every creation request carries
\* the two as YYYY-MM-DDTHH:MM:SSZ texts.
C15_OneMonthPeriod ==
    LET y == input_dt_str[1]
        m == input_dt_str[2]
        y2 == IF m = 12 THEN y + 1 ELSE y
        m2 == IF m = 12 THEN 1 ELSE m + 1
    IN  /\ (pc # "start" /\ error = "") =>
              /\ Val(from_dt) = [year |-> y, month |-> m, day |-> 1,
                                 hour |-> 0, minute |-> 0, second |-> 0]
              /\ Val(to_dt) = [year |-> y2, month |-> m2, day |-> 1,
                               hour |-> 0, minute |-> 0, second |-> 0]
              /\ 12 * Val(to_dt).year + Val(to_dt).month
                    = 12 * Val(from_dt).year + Val(from_dt).month + 1
              /\ \/ Val(from_dt).year < Val(to_dt).year
                 \/ /\ Val(from_dt).year = Val(to_dt).year
                    /\ Val(from_dt).month < Val(to_dt).month
        /\ (payload # None) =>
              /\ WireForm(Val(payload).timeFrom)
              /\ WireForm(Val(payload).timeTo)
              /\ WireFields(Val(payload).timeFrom) = <<y, m, 1, 0, 0, 0>>
              /\ WireFields(Val(payload).timeTo) = <<y2, m2, 1, 0, 0, 0>>

\* C15: the request for December 2023 runs from 2023-12-01 to 2024-01-01
C15_Witness ==
    /\ input_dt_str = <<2023, 12>>
    /\ last.call = "create"
    /\ payload = Some(
          [timeFrom |-> <<"2", "0", "2", "3", "-", "1", "2", "-", "0", "1",
                          "T", "0", "0", ":", "0", "0", ":", "0", "0", "Z">>,
           timeTo |-> <<"2", "0", "2", "4", "-", "0", "1", "-", "0", "1",
                        "T", "0", "0", ":", "0", "0", ":", "0", "0", "Z">>])

\* C16: a run that reached its end has put exactly one object, the bytes
\* of the download answer under t212/<period>.csv, and exactly one frame,
\* transform of those bytes under digrin/<period>.csv, <period> being the
\* period typed at the prompt.
C16_TwoArtifacts ==
    (pc = "done") =>
        LET name == [period |-> input_dt_str, ext |-> ".csv"]
            bytes == Val(response).content
        IN  /\ s3.objects = {[key |-> [dir |-> "t212", filename |-> name],
                              body |-> bytes]}
            /\ s3.frames = {[key |-> [dir |-> "digrin", filename |-> name],
                             body |-> transform(bytes)]}

\* C16: the run for February 2024 ended with a one-line file, a buy of
\* VWCE, archived raw and as a frame with the ticker VWCE.DE
C16_Witness ==
    /\ pc = "done"
    /\ input_dt_str = <<2024, 2>>
    /\ Val(response).content.rows =
          <<[Action |-> "Market buy", Ticker |-> "VWCE"]>>
    /\ \E o \in s3.objects : o.body = Val(response).content
    /\ \E f \in s3.frames :
          f.body = <<[idx |-> 0, Action |-> Some("Market buy"),
                      Ticker |-> Some("VWCE.DE")]>>

\* the phase an HTTP call belongs to
Phase(call) ==
    CASE call = "none" -> 0 [] call = "create" -> 1
      [] call = "list" -> 2 [] call = "download" -> 3

\* C17: the HTTP calls of a run never go back a phase (creation, listing,
\* download); once the download is issued the run makes no HTTP call and
\* stands at none of the creation, listing or download statements; the
\* frame, the local file and the bucket change only after a download
\* answered 200.
C17_PhasesOrdered ==
    [][ /\ Phase(last'.call) >= Phase(last.call)
        /\ (last.call = "download") => last' = last
        /\ (last'.call = "download") =>
              pc' \notin {"create", "create_sleep", "created", "list",
                          "list_sleep", "download"}
        /\ (s3' # s3 \/ digrin_df' # digrin_df \/ csv_file' # csv_file) =>
              last = [call |-> "download", status |-> HTTP_OK] ]_vars

\* C17: a run went through its phases to the end
C17_Witness ==
    /\ pc = "done"
    /\ last = [call |-> "download", status |-> HTTP_OK]
    /\ payload # None
    /\ reports # None
    /\ s3.objects # {}
    /\ s3.frames # {}

\* C18: a download answered with a non-success status takes the run to its
\* early return with nothing transformed and nothing stored, and the run
\* takes no step after the return.
C18_DownloadFailureEndsRun ==
    [][ /\ (pc = "download" /\ last'.call = "download"
               /\ last'.status # HTTP_OK) =>
              /\ pc' = "returned"
              /\ error' = ""
              /\ t212_df' = None
              /\ digrin_df' = None
              /\ csv_file' = None
              /\ s3' = [objects |-> {}, frames |-> {}]
        /\ pc # "returned" ]_vars

\* C18: the download was answered 500 and the run returned
C18_Witness ==
    /\ pc = "returned"
    /\ last = [call |-> "download", status |-> 500]
    /\ fetched # None
    /\ s3 = [objects |-> {}, frames |-> {}]

\* C19: a listing answered 200 with an empty list takes the run to the
\* same sleep as a listing answered with a non-success status, raising
\* nothing; a listing answered 200 with a non-empty list lacking the job id
\* ends the run with StopIteration.
C19_EmptyListRetried ==
    [][ /\ (ListedOK /\ reports' = Some(<<>>)) =>
              /\ pc' = "list_sleep"
              /\ error' = ""
              /\ report_id' = report_id
        /\ (pc = "list" /\ last'.status # HTTP_OK) => pc' = "list_sleep"
        /\ (pc = "list_sleep") => (pc' = "list" /\ last' = last)
        /\ (ListedOK /\ TruthyList(reports')
               /\ ~HasId(Val(reports'), Val(report_id))) =>
              /\ pc' = "raised"
              /\ error' = "StopIteration" ]_vars

\* C19: a listing was answered 200 with an empty list and the run sleeps
C19_Witness ==
    /\ pc = "list_sleep"
    /\ last = [call |-> "list", status |-> HTTP_OK]
    /\ reports = Some(<<>>)
    /\ error = ""

\* the period parses and the answer to the last creation or listing call
\* was a good one: a creation answered 200 with a truthy job id; a listing
\* answered 200 with the job's last entry Finished and carrying a link
GoodAnswer ==
    /\ StrptimeOk(input_dt_str)
    /\ (last.call = "create") => (last.status = HTTP_OK /\ TruthyInt(report_id))
    /\ (last.call = "list") =>
          /\ last.status = HTTP_OK
          /\ TruthyList(reports)
          /\ HasId(Val(reports), Val(report_id))
          /\ LastMatch(Val(reports), Val(report_id)).status = "Finished"
          /\ LastMatch(Val(reports), Val(report_id)).downloadLink # None

\* C20: if from some point on every answer of the provider is a good one,
\* the run eventually issues the download; and a listing whose selected
\* entry is not Finished, whatever its status, leaves the run at the
\* listing call.
C20_Liveness ==
    /\ (<>[]GoodAnswer) => <>(last.call = "download")
    /\ [][ (ListedOK /\ TruthyList(reports')
               /\ HasId(Val(reports'), Val(report_id))
               /\ LastMatch(Val(reports'), Val(report_id)).status # "Finished")
            => (pc' = "list" /\ error' = "") ]_vars

\* C20: the job was listed as Failed and the run is about to list again
C20_Witness ==
    /\ pc = "list"
    /\ last = [call |-> "list", status |-> HTTP_OK]
    /\ report # None
    /\ Val(report).status = "Failed"

===========================================================================
